---- MODULE Spec2Model ----
(***************************************************************************)
(* Model of the knowledge-base tools of elev8tion/edc-web:                 *)
(*   kb-tools/build_nocodebackend_knowledge.py  (the frame indexer)        *)
(*   kb-tools/intelligent_kb_builder.py         (the topic organizer)      *)
(* Both are sequential scripts.  A run is a walk of `pc` through the steps *)
(* of the script's main; the source tree and the outcomes of the external  *)
(* tool are inputs.                                                        *)
(***************************************************************************)
EXTENDS Integers, Sequences, FiniteSets, TLC

VARIABLES
    prog,           \* which script was launched: "indexer" or "kb"
    pc,             \* position of the running script
    rootKind,       \* the scanned root path: "absent", "file" or "dir"
    children,       \* the root's entries in the order iterdir yields them:
                    \* position -> [kind, pngs, other]; the position names the entry
    clock,          \* the wall clock read by datetime.now()
    frame_dirs,     \* indexer: result of find_all_frame_directories
    index_data,     \* indexer: <<>> or <<the index built in memory>>
    indexFile,      \* knowledge_base/frame_index.json: <<>> or <<content>>
    guideFile,      \* knowledge_base/NoCodeBackend_Learning_Guide.md
    tempDoc,        \* knowledge_base/temp_memvid_input.md
    probeResult,    \* <<>> or <<outcome of the `which memvid` probe>>
    createResult,   \* <<>> or <<outcome of the `memvid create` subprocess>>
    memvid_success, \* <<>> or <<result of build_memvid_knowledge_base>>
    summary,        \* <<>> or <<the final summary that was logged>>
    exitStatus,     \* <<>> while running, <<status>> once the process ended
    events,         \* the steps taken so far, in order
    argc,           \* kb: number of positional command-line arguments
    kbDirs,         \* directories under the knowledge-base directory
    kbFiles,        \* files under the knowledge-base directory: path -> content
    kbFrameDirs,    \* kb: the frame directories found by build
    topics,         \* <<>> or <<the topic -> frame paths mapping>>
    buildResult,    \* <<>> or <<value returned by KnowledgeBaseBuilder.build>>
    logo,           \* icons: <<>> or <<width, height>> of the logo image file
    icons           \* icons: the icon files saved so far, in order

idxVars == <<frame_dirs, index_data, indexFile, guideFile, tempDoc,
             probeResult, createResult, memvid_success, summary>>
envVars == <<prog, rootKind, children, argc>>
kbVars == <<kbDirs, kbFiles, kbFrameDirs, topics, buildResult>>
iconVars == <<logo, icons>>

vars == <<prog, pc, rootKind, children, clock, frame_dirs, index_data,
          indexFile, guideFile, tempDoc, probeResult, createResult,
          memvid_success, summary, exitStatus, events, argc, kbDirs, kbFiles,
          kbFrameDirs, topics, buildResult, logo, icons>>

-----------------------------------------------------------------------------
(* Bounds of the model *)

\* number of item slots under the scanned root
MaxChildren == 2
\* frame files a video directory may hold are numbered 1..NumNames
NumNames == 2
\* frame numbers are written in this base to form the file name
NameBase == 2
\* the clock runs from 0 to MaxClock between two calls of build_topic_structure
MaxClock == 1
\* the topic organizer is started with 0..MaxArgs positional arguments
MaxArgs == 2
\* the learning guide is written for videos of 1..MaxGuideFrames frames
MaxGuideFrames == 6
\* build_topic_structure is given 0..MaxTopicFrames frame paths per topic
MaxTopicFrames == 1

-----------------------------------------------------------------------------
(* Sequences and orders *)

\* all the sequences that enumerate the finite set S once each
RECURSIVE Orders(_)
Orders(S) ==
    IF S = {} THEN {<<>>}
    ELSE UNION {{<<x>> \o t : t \in Orders(S \ {x})} : x \in S}

RECURSIVE SumSeq(_)
SumSeq(s) == IF s = <<>> THEN 0 ELSE Head(s) + SumSeq(Tail(s))

Range(s) == {s[i] : i \in DOMAIN s}

\* s[:n] of Python
Take(s, n) == SubSeq(s, 1, IF Len(s) < n THEN Len(s) ELSE n)

-----------------------------------------------------------------------------
(* File names and paths *)

\* the digits of n in base NameBase, most significant first
RECURSIVE Digits(_)
Digits(n) ==
    IF n < NameBase THEN <<n>>
    ELSE Append(Digits(n \div NameBase), n % NameBase)

\* the file name of frame number i: stem and extension
FrameFile(i) == [stem |-> Digits(i), ext |-> "png"]
\* a file of a video directory that is no frame
OtherFile == [stem |-> <<0>>, ext |-> "txt"]

\* string order on character sequences: first difference decides, a proper
\* prefix comes first
RECURSIVE LexLess(_, _)
LexLess(a, b) ==
    IF b = <<>> THEN FALSE
    ELSE IF a = <<>> THEN TRUE
    ELSE IF Head(a) # Head(b) THEN Head(a) < Head(b)
    ELSE LexLess(Tail(a), Tail(b))

\* Path.__lt__ on two paths <<directory, file>>: by parts; files of one
\* directory with one extension compare by stem ('.' sorts before digits)
PathLess(p, q) ==
    \/ p[1] < q[1]
    \/ p[1] = q[1] /\ LexLess(p[2].stem, q[2].stem)

\* str(path) and Path(string)
Str(p) == [str |-> p]
PathOf(s) == s.str
\* Path.name: the last component
PathName(p) == p[Len(p)]

-----------------------------------------------------------------------------
(* The source tree *)

Items == 1..MaxChildren

NoItem == [kind |-> "none", pngs |-> {}, other |-> FALSE]
PlainFile == [kind |-> "file", pngs |-> {}, other |-> FALSE]
DirItems == [kind : {"dir"}, pngs : SUBSET (1..NumNames), other : BOOLEAN]
ItemStates == {NoItem, PlainFile} \cup DirItems

\* an existence check that always passes
RootExistsAlways == TRUE

\* Path.exists(), Path.is_dir(), Path.iterdir()
RootExists == rootKind # "absent"
IsDir(item) == children[item].kind = "dir"
IterDir == SelectSeq([c \in Items |-> c], LAMBDA c : children[c].kind # "none")

\* the files of directory `item`
DirFiles(item) ==
    {FrameFile(i) : i \in children[item].pngs}
        \cup (IF children[item].other THEN {OtherFile} ELSE {})

\* item.glob("*.<ext>"): the matching files as paths, in whatever order the
\* filesystem enumerates them
Glob(item, ext) ==
    LET names == Orders({f \in DirFiles(item) : f.ext = ext})
    IN  {[i \in DOMAIN l |-> <<item, l[i]>>] : l \in names}

-----------------------------------------------------------------------------
(* sorted() *)

RECURSIVE Insert(_, _)
Insert(x, s) ==
    IF s = <<>> THEN <<x>>
    ELSE IF PathLess(x, Head(s)) THEN <<x>> \o s
    ELSE <<Head(s)>> \o Insert(x, Tail(s))

RECURSIVE InsertionSort(_)
InsertionSort(s) ==
    IF s = <<>> THEN <<>> ELSE Insert(Head(s), InsertionSort(Tail(s)))

\* a scanner that keeps the enumeration order
SortedAsEnumerated(s) == s

Sorted(s) == InsertionSort(s)

-----------------------------------------------------------------------------
(* build_nocodebackend_knowledge.py: find_all_frame_directories *)

\* the entry appended for a directory whose glob is png_files
FrameDirEntry(item, png_files) ==
    [path |-> <<item>>,
     name |-> PathName(<<item>>),
     frame_count |-> Len(png_files),
     frames |-> Sorted(png_files)]

\* a scanner that also takes directories with files of any kind
QualifiesAnyFile(item, png_files) == IsDir(item) /\ DirFiles(item) # {}

\* the loop body's two tests: item.is_dir() and a non-empty glob
Qualifies(item, png_files) == IsDir(item) /\ png_files # <<>>

\* the results of the loop over the items in the given order
RECURSIVE ScanItems(_)
ScanItems(order) ==
    IF order = <<>> THEN {<<>>}
    ELSE LET item == Head(order)
             rest == ScanItems(Tail(order))
         IN  UNION {IF Qualifies(item, png_files)
                        THEN {<<FrameDirEntry(item, png_files)>> \o r : r \in rest}
                        ELSE rest
                    : png_files \in Glob(item, "png")}

\* every result the scan can return for the current tree
FindAllFrameDirectories ==
    IF ~RootExists THEN {<<>>}
    ELSE ScanItems(IterDir)

-----------------------------------------------------------------------------
(* build_nocodebackend_knowledge.py: create_knowledge_index *)

VideoInfo(video_data) ==
    [name |-> video_data.name,
     frame_count |-> video_data.frame_count,
     directory |-> Str(video_data.path),
     frames |-> [i \in DOMAIN video_data.frames |-> Str(video_data.frames[i])]]

\* an index whose total counts the videos instead of their frames
IndexTotalOfVideos(fds, now) ==
    [created_at |-> now,
     total_videos |-> Len(fds),
     total_frames |-> Len(fds),
     videos |-> [i \in DOMAIN fds |-> VideoInfo(fds[i])]]

CreateKnowledgeIndex(fds, now) ==
    [created_at |-> now,
     total_videos |-> Len(fds),
     total_frames |-> SumSeq([i \in DOMAIN fds |-> fds[i].frame_count]),
     videos |-> [i \in DOMAIN fds |-> VideoInfo(fds[i])]]

-----------------------------------------------------------------------------
(* build_nocodebackend_knowledge.py: create_markdown_documentation *)

\* number of sample frames listed per video
SampleLimit == 5

NoFile == [stem |-> <<>>, ext |-> ""]
NoDir == Str(<<>>)
Line(kind, num, file, dir) == [kind |-> kind, num |-> num, file |-> file, dir |-> dir]

\* the "- `<file name>`" lines of the sample frames
SampleLines(sample_frames) ==
    [i \in DOMAIN sample_frames |->
        Line("sample", 0, PathName(PathOf(sample_frames[i])), NoDir)]

\* a guide that announces the remaining frames one frame too early
MoreLineFromLimit(video) ==
    IF video.frame_count >= SampleLimit
        THEN <<Line("more", video.frame_count - SampleLimit, NoFile, NoDir)>>
        ELSE <<>>

\* the "- ... and N more frames" line, when there is one
MoreLine(video) ==
    IF video.frame_count > SampleLimit
        THEN <<Line("more", video.frame_count - SampleLimit, NoFile, NoDir)>>
        ELSE <<>>

\* the lines written for one video under "Frame Distribution"
VideoSection(video) ==
    <<Line("heading", video.name, NoFile, NoDir),
      Line("frames", video.frame_count, NoFile, NoDir),
      Line("directory", 0, NoFile, video.directory),
      Line("sample_header", 0, NoFile, NoDir)>>
    \o SampleLines(Take(video.frames, SampleLimit))
    \o MoreLine(video)
    \o <<Line("blank", 0, NoFile, NoDir)>>

CreateMarkdownDocumentation(index, now) ==
    [generated |-> now,
     total_videos |-> index.total_videos,
     total_frames |-> index.total_frames,
     contents |-> [i \in DOMAIN index.videos |->
                      [idx |-> i,
                       name |-> index.videos[i].name,
                       frame_count |-> index.videos[i].frame_count]],
     sections |-> [i \in DOMAIN index.videos |-> VideoSection(index.videos[i])]]

-----------------------------------------------------------------------------
(* build_nocodebackend_knowledge.py: build_memvid_knowledge_base *)

ProbeOutcomes == {"found", "not_found", "raised"}
CreateOutcomes == {"zero", "nonzero", "raised"}

\* a probe whose exception is taken for success
ProbeSucceededUnlessNotFound(outcome) == outcome # "not_found"

\* `which memvid` ran and returned status 0
ProbeSucceeded(outcome) == outcome = "found"

\* a create step that only fails on an exception
CreateSucceededUnlessRaised(outcome) == outcome # "raised"

\* `memvid create` ran and returned status 0
CreateSucceeded(outcome) == outcome = "zero"

\* the temporary document: the frame paths grouped by video
TempDocContent(index) ==
    [i \in DOMAIN index.videos |->
        [video |-> index.videos[i].name, frames |-> index.videos[i].frames]]

-----------------------------------------------------------------------------
(* build_nocodebackend_knowledge.py: main *)

\* line 329: the knowledge-base line of the summary
MemvidLine(success) == IF success THEN "Created" ELSE "Not Created"

\* a run that goes on with no frame directory
NothingFoundIgnored(fds) == FALSE

\* `if not frame_dirs`
NothingFound(fds) == fds = <<>>

\* lines 289-297: scan; exit with status 1 when nothing was found
MainScan ==
    /\ prog = "indexer" /\ pc = "start"
    /\ \E fds \in FindAllFrameDirectories :
          /\ frame_dirs' = fds
          /\ IF NothingFound(fds)
                THEN pc' = "exited" /\ exitStatus' = <<1>>
                ELSE pc' = "index" /\ UNCHANGED exitStatus
    /\ events' = Append(events, "scan")
    /\ UNCHANGED <<envVars, iconVars, kbVars, clock, index_data, indexFile, guideFile, tempDoc,
                   probeResult, createResult, memvid_success, summary>>

\* lines 299-310: build the index and save it as JSON
MainWriteIndex ==
    /\ prog = "indexer" /\ pc = "index"
    /\ index_data' = <<CreateKnowledgeIndex(frame_dirs, clock)>>
    /\ indexFile' = index_data'
    /\ pc' = "guide"
    /\ events' = Append(events, "index")
    /\ UNCHANGED <<envVars, iconVars, kbVars, clock, frame_dirs, guideFile, tempDoc, probeResult,
                   createResult, memvid_success, summary, exitStatus>>

\* lines 312-315: write the learning guide
MainWriteGuide ==
    /\ prog = "indexer" /\ pc = "guide"
    /\ guideFile' = <<CreateMarkdownDocumentation(index_data[1], clock)>>
    /\ pc' = "probe"
    /\ events' = Append(events, "guide")
    /\ UNCHANGED <<envVars, iconVars, kbVars, clock, frame_dirs, index_data, indexFile, tempDoc,
                   probeResult, createResult, memvid_success, summary, exitStatus>>

\* lines 230-243: probe for the tool; return False when it is not there
MemvidProbe ==
    /\ prog = "indexer" /\ pc = "probe"
    /\ \E outcome \in ProbeOutcomes :
          /\ probeResult' = <<outcome>>
          /\ IF ProbeSucceeded(outcome)
                THEN pc' = "temp_doc" /\ UNCHANGED memvid_success
                ELSE pc' = "summary" /\ memvid_success' = <<FALSE>>
    /\ events' = Append(events, "probe")
    /\ UNCHANGED <<envVars, iconVars, kbVars, clock, frame_dirs, index_data, indexFile, guideFile,
                   tempDoc, createResult, summary, exitStatus>>

\* a build that goes on to the create command without its input document
MemvidSkipTempDoc ==
    /\ prog = "indexer" /\ pc = "temp_doc"
    /\ pc' = "create"
    /\ UNCHANGED <<envVars, iconVars, kbVars, clock, frame_dirs, index_data, indexFile, guideFile,
                   tempDoc, probeResult, createResult, memvid_success, summary,
                   exitStatus, events>>

\* lines 245-256: write the temporary input document
MemvidWriteTempDoc ==
    /\ prog = "indexer" /\ pc = "temp_doc"
    /\ tempDoc' = <<TempDocContent(index_data[1])>>
    /\ pc' = "create"
    /\ events' = Append(events, "temp_doc")
    /\ UNCHANGED <<envVars, iconVars, kbVars, clock, frame_dirs, index_data, indexFile, guideFile,
                   probeResult, createResult, memvid_success, summary, exitStatus>>

\* lines 258-278: run `memvid create`; the result follows its exit status
MemvidCreate ==
    /\ prog = "indexer" /\ pc = "create"
    /\ \E outcome \in CreateOutcomes :
          /\ createResult' = <<outcome>>
          /\ memvid_success' = <<CreateSucceeded(outcome)>>
    /\ pc' = "summary"
    /\ events' = Append(events, "create")
    /\ UNCHANGED <<envVars, iconVars, kbVars, clock, frame_dirs, index_data, indexFile, guideFile,
                   tempDoc, probeResult, summary, exitStatus>>

\* lines 321-338: the final summary; main returns
MainSummary ==
    /\ prog = "indexer" /\ pc = "summary"
    /\ summary' = <<[total_videos |-> index_data[1].total_videos,
                     total_frames |-> index_data[1].total_frames,
                     memvid |-> MemvidLine(memvid_success[1])]>>
    /\ pc' = "exited"
    /\ exitStatus' = <<0>>
    /\ events' = Append(events, "summary")
    /\ UNCHANGED <<envVars, iconVars, kbVars, clock, frame_dirs, index_data, indexFile, guideFile,
                   tempDoc, probeResult, createResult, memvid_success>>

-----------------------------------------------------------------------------
(* intelligent_kb_builder.py: the knowledge-base directory *)

\* paths are relative to kb_dir = KB_BASE_DIR / topic
KbDir == <<>>
TopicsDir == <<"topics">>
TechDir == <<"technologies">>
CodeDir == <<"code-snippets">>
SearchDir == <<"search-index">>

\* self.topic, the first command-line argument
KBTopic == "NoCodeBackend"

\* the keys of the dict of extract_topics_from_frames, in insertion order
TopicNames ==
    <<"authentication", "database", "api-design", "frontend", "deployment",
      "testing", "configuration">>
Topics == Range(TopicNames)

Parent(p) == SubSeq(p, 1, Len(p) - 1)

\* open(path, 'w') / write_text: create or replace the file
WriteFile(files, p, content) ==
    [q \in DOMAIN files \cup {p} |-> IF q = p THEN content ELSE files[q]]

\* __init__, lines 34-37: mkdir(parents=True, exist_ok=True) of the five
\* directories
ConstructDirs(dirs) == dirs \cup {KbDir, TopicsDir, TechDir, CodeDir, SearchDir}

-----------------------------------------------------------------------------
(* intelligent_kb_builder.py: extract_topics_from_frames *)

\* lines 76-102: the analysis loop adds nothing to any topic
ExtractTopicsFromFrames(frame_directories) == [t \in Topics |-> <<>>]

-----------------------------------------------------------------------------
(* intelligent_kb_builder.py: build_topic_structure *)

TopicDir(topic_name) == TopicsDir \o <<topic_name>>
TopicSubDirs(topic_name) ==
    {TopicDir(topic_name) \o <<sub>> : sub \in {"concepts", "code-examples", "frames"}}
MetadataPath(topic_name) == TopicDir(topic_name) \o <<"metadata.json">>
OverviewPath(topic_name) == TopicDir(topic_name) \o <<"concepts", "overview.md">>

\* lines 108-113: every mkdir passes exist_ok=True
ExistOk == TRUE

\* Path.mkdir without parents=True fails when the parent is missing, and on
\* an existing directory unless exist_ok
MkdirFails(dirs, p) == Parent(p) \notin dirs \/ (p \in dirs /\ ~ExistOk)

\* metadata that adds the frames to those already recorded
TopicMetadataAppending(topic_name, frame_paths, now) ==
    LET old == IF MetadataPath(topic_name) \in DOMAIN kbFiles
                   THEN kbFiles[MetadataPath(topic_name)].frames ELSE <<>>
    IN  [topic |-> topic_name,
         frame_count |-> Len(old) + Len(frame_paths),
         last_updated |-> now,
         frames |-> old \o frame_paths]

\* metadata that records the knowledge base's name as the topic
TopicMetadataOfSeries(topic_name, frame_paths, now) ==
    [topic |-> KBTopic,
     frame_count |-> Len(frame_paths),
     last_updated |-> now,
     frames |-> frame_paths]

\* lines 116-121
TopicMetadata(topic_name, frame_paths, now) ==
    [topic |-> topic_name,
     frame_count |-> Len(frame_paths),
     last_updated |-> now,
     frames |-> frame_paths]

\* lines 128-149: the templated overview
TopicOverview(topic_name, frame_paths) ==
    [title |-> <<"title", topic_name>>,
     topic |-> topic_name,
     series |-> KBTopic,
     frame_count |-> Len(frame_paths)]

\* the loop over topics.items(), from a state [dirs, files, failed]; an
\* I/O error stops the loop
RECURSIVE BuildTopicsFrom(_, _, _, _)
BuildTopicsFrom(keys, mapping, st, now) ==
    IF keys = <<>> \/ st.failed THEN st
    ELSE LET topic_name == Head(keys)
             frame_paths == mapping[topic_name]
             fails ==
                 \/ MkdirFails(st.dirs, TopicDir(topic_name))
                 \/ \E d \in TopicSubDirs(topic_name) :
                        MkdirFails(st.dirs \cup {TopicDir(topic_name)}, d)
             dirs1 == st.dirs \cup {TopicDir(topic_name)} \cup TopicSubDirs(topic_name)
             files1 == WriteFile(st.files, MetadataPath(topic_name),
                                 TopicMetadata(topic_name, frame_paths, now))
             files2 == WriteFile(files1, OverviewPath(topic_name),
                                 TopicOverview(topic_name, frame_paths))
         IN  IF fails
                 THEN [st EXCEPT !.failed = TRUE]
                 ELSE BuildTopicsFrom(Tail(keys), mapping,
                                      [dirs |-> dirs1, files |-> files2, failed |-> FALSE],
                                      now)

BuildTopicStructure(mapping, dirs, files, now) ==
    BuildTopicsFrom(TopicNames, mapping,
                    [dirs |-> dirs, files |-> files, failed |-> FALSE], now)

-----------------------------------------------------------------------------
(* intelligent_kb_builder.py: create_master_index, create_search_guide *)

MasterIndexPath == SearchDir \o <<"master_index.json">>
SearchGuidePath == <<"SEARCH_GUIDE.md">>
KbMetadataPath == <<"metadata.json">>

\* len(list(d.glob("*.png"))): the same for every enumeration order
GlobCount(d) == Len(CHOOSE g \in Glob(d[1], "png") : TRUE)

MasterVideoInfo(video_dir, frames) ==
    [directory |-> Str(video_dir),
     name |-> PathName(video_dir),
     frame_count |-> Len(frames),
     frames |-> [i \in DOMAIN frames |-> Str(frames[i])]]

\* lines 163-171: one entry per directory, its frames as the glob gives them
RECURSIVE MasterVideos(_)
MasterVideos(frame_directories) ==
    IF frame_directories = <<>> THEN {<<>>}
    ELSE {<<MasterVideoInfo(Head(frame_directories), frames)>> \o r :
             frames \in Glob(Head(frame_directories)[1], "png"),
             r \in MasterVideos(Tail(frame_directories))}

\* every index the call can build for the current tree
CreateMasterIndex(frame_directories, now) ==
    {[knowledge_base |-> KBTopic,
      created_at |-> now,
      total_videos |-> Len(frame_directories),
      total_frames |-> SumSeq([i \in DOMAIN frame_directories |->
                                  GlobCount(frame_directories[i])]),
      videos |-> v] : v \in MasterVideos(frame_directories)}

SearchGuide(now) == [topic |-> KBTopic, topics |-> TopicNames, last_updated |-> now]

-----------------------------------------------------------------------------
(* intelligent_kb_builder.py: build and main *)

\* len(sys.argv) must be at least this
MinArgv == 3

\* line 334: len(sys.argv) < 3, for n positional arguments
UsageError(n) == n + 1 < MinArgv

\* d.is_dir() and list(d.glob("*.png"))
KBQualifies(item) == IsDir(item) /\ GlobCount(<<item>>) > 0

\* lines 275-276: the qualifying directories, in iterdir order
KBScanResult ==
    LET kept == SelectSeq(IterDir, KBQualifies)
    IN  [i \in DOMAIN kept |-> <<kept[i]>>]

KBMetadata(index, mapping, now) ==
    [topic |-> KBTopic,
     created_at |-> now,
     source_directory |-> Str(<<>>),
     total_videos |-> index.total_videos,
     total_frames |-> index.total_frames,
     topics |-> SelectSeq(TopicNames, LAMBDA t : t \in DOMAIN mapping),
     version |-> "2.0"]

\* lines 334-337: too few arguments
KBUsage ==
    /\ prog = "kb" /\ pc = "start"
    /\ UsageError(argc)
    /\ pc' = "exited" /\ exitStatus' = <<1>>
    /\ events' = Append(events, "usage")
    /\ UNCHANGED <<envVars, iconVars, kbVars, clock, idxVars>>

\* lines 342-344: the source directory does not exist
KBNoSource ==
    /\ prog = "kb" /\ pc = "start"
    /\ ~UsageError(argc) /\ ~RootExists
    /\ pc' = "exited" /\ exitStatus' = <<1>>
    /\ events' = Append(events, "no_source")
    /\ UNCHANGED <<envVars, iconVars, kbVars, clock, idxVars>>

\* line 346: KnowledgeBaseBuilder(topic, source_dir)
KBConstruct ==
    /\ prog = "kb" /\ pc = "start"
    /\ ~UsageError(argc) /\ RootExists
    /\ kbDirs' = ConstructDirs(kbDirs)
    /\ pc' = "build"
    /\ events' = Append(events, "construct")
    /\ UNCHANGED <<envVars, iconVars, clock, idxVars, exitStatus, kbFiles, kbFrameDirs,
                   topics, buildResult>>

\* lines 275-276 on a source that is no directory: iterdir raises
\* NotADirectoryError, nothing catches it, the interpreter exits with 1
KBScanRaises ==
    /\ prog = "kb" /\ pc = "build"
    /\ rootKind = "file"
    /\ pc' = "exited" /\ exitStatus' = <<1>>
    /\ events' = Append(events, "traceback")
    /\ UNCHANGED <<envVars, iconVars, kbVars, clock, idxVars>>

\* lines 275-282: scan; return False when nothing was found
KBScan ==
    /\ prog = "kb" /\ pc = "build"
    /\ rootKind = "dir"
    /\ kbFrameDirs' = KBScanResult
    /\ IF NothingFound(KBScanResult)
          THEN pc' = "sys_exit" /\ buildResult' = <<FALSE>>
          ELSE pc' = "extract" /\ UNCHANGED buildResult
    /\ events' = Append(events, "scan")
    /\ UNCHANGED <<envVars, iconVars, clock, idxVars, exitStatus, kbDirs, kbFiles, topics>>

\* lines 284-286
KBExtractTopics ==
    /\ prog = "kb" /\ pc = "extract"
    /\ topics' = <<ExtractTopicsFromFrames(kbFrameDirs)>>
    /\ pc' = "topic_structure"
    /\ events' = Append(events, "extract")
    /\ UNCHANGED <<envVars, iconVars, clock, idxVars, exitStatus, kbDirs, kbFiles,
                   kbFrameDirs, buildResult>>

\* lines 288-290; an I/O error is not caught and ends the process
KBBuildTopicStructure ==
    /\ prog = "kb" /\ pc = "topic_structure"
    /\ LET st == BuildTopicStructure(topics[1], kbDirs, kbFiles, clock)
       IN  /\ kbDirs' = st.dirs
           /\ kbFiles' = st.files
           /\ IF st.failed
                 THEN pc' = "exited" /\ exitStatus' = <<1>>
                 ELSE pc' = "master_index" /\ UNCHANGED exitStatus
    /\ events' = Append(events, "topic_structure")
    /\ UNCHANGED <<envVars, iconVars, clock, idxVars, kbFrameDirs, topics, buildResult>>

\* lines 292-294
KBCreateMasterIndex ==
    /\ prog = "kb" /\ pc = "master_index"
    /\ \E index \in CreateMasterIndex(kbFrameDirs, clock) :
          kbFiles' = WriteFile(kbFiles, MasterIndexPath, index)
    /\ pc' = "search_guide"
    /\ events' = Append(events, "master_index")
    /\ UNCHANGED <<envVars, iconVars, clock, idxVars, exitStatus, kbDirs, kbFrameDirs,
                   topics, buildResult>>

\* lines 296-298
KBCreateSearchGuide ==
    /\ prog = "kb" /\ pc = "search_guide"
    /\ kbFiles' = WriteFile(kbFiles, SearchGuidePath, SearchGuide(clock))
    /\ pc' = "metadata"
    /\ events' = Append(events, "search_guide")
    /\ UNCHANGED <<envVars, iconVars, clock, idxVars, exitStatus, kbDirs, kbFrameDirs,
                   topics, buildResult>>

\* lines 300-327: write the build metadata; build returns True
KBWriteMetadata ==
    /\ prog = "kb" /\ pc = "metadata"
    /\ kbFiles' = WriteFile(kbFiles, KbMetadataPath,
                            KBMetadata(kbFiles[MasterIndexPath], topics[1], clock))
    /\ buildResult' = <<TRUE>>
    /\ pc' = "sys_exit"
    /\ events' = Append(events, "metadata")
    /\ UNCHANGED <<envVars, iconVars, clock, idxVars, exitStatus, kbDirs, kbFrameDirs, topics>>

\* line 349: sys.exit(0 if success else 1)
KBExit ==
    /\ prog = "kb" /\ pc = "sys_exit"
    /\ exitStatus' = <<IF buildResult[1] THEN 0 ELSE 1>>
    /\ pc' = "exited"
    /\ events' = Append(events, "sys_exit")
    /\ UNCHANGED <<envVars, iconVars, kbVars, clock, idxVars>>

-----------------------------------------------------------------------------
(* The runs of the two scripts *)

\* the trees a root can hold
Trees == [Items -> ItemStates]
NoChildren == [c \in Items |-> NoItem]
NoFiles == [p \in {} |-> <<>>]

\* nothing has run yet
Fresh ==
    /\ frame_dirs = <<>>
    /\ index_data = <<>>
    /\ indexFile = <<>>
    /\ guideFile = <<>>
    /\ tempDoc = <<>>
    /\ probeResult = <<>>
    /\ createResult = <<>>
    /\ memvid_success = <<>>
    /\ summary = <<>>
    /\ exitStatus = <<>>
    /\ events = <<>>
    /\ kbFrameDirs = <<>>
    /\ buildResult = <<>>
    /\ logo = <<>>
    /\ icons = <<>>

\* the frame indexer takes no argument and scans NOCODEBACKEND_DIR, which is
\* missing or a directory; the topic organizer is given its source path
Init ==
    /\ prog \in {"indexer", "kb"}
    /\ pc = "start"
    /\ argc \in (IF prog = "kb" THEN 0..MaxArgs ELSE {0})
    /\ rootKind \in (IF prog = "indexer" THEN {"absent", "dir"}
                     ELSE IF UsageError(argc) THEN {"absent"}
                     ELSE {"absent", "file", "dir"})
    /\ children \in (IF rootKind = "dir" THEN Trees ELSE {NoChildren})
    /\ clock = 0
    /\ kbDirs = {}
    /\ kbFiles = NoFiles
    /\ topics = <<>>
    /\ Fresh

Next ==
    \/ MainScan
    \/ MainWriteIndex
    \/ MainWriteGuide
    \/ MemvidProbe
    \/ MemvidWriteTempDoc
    \/ MemvidCreate
    \/ MainSummary
    \/ KBUsage
    \/ KBNoSource
    \/ KBConstruct
    \/ KBScanRaises
    \/ KBScan
    \/ KBExtractTopics
    \/ KBBuildTopicStructure
    \/ KBCreateMasterIndex
    \/ KBCreateSearchGuide
    \/ KBWriteMetadata
    \/ KBExit

Spec == Init /\ [][Next]_vars

-----------------------------------------------------------------------------
(* The learning guide for videos of many frames *)

\* the scan result for a directory holding frames 1..k
ScannedDir(item, k) == FrameDirEntry(item, [i \in 1..k |-> <<item, FrameFile(i)>>])

GuideTrees ==
    [Items -> {NoItem} \cup {[kind |-> "dir", pngs |-> 1..k, other |-> FALSE] :
                                k \in 1..MaxGuideFrames}]

\* the frame indexer right after a scan that found something
InitGuide ==
    /\ prog = "indexer"
    /\ pc = "index"
    /\ argc = 0
    /\ rootKind = "dir"
    /\ children \in GuideTrees
    /\ clock = 0
    /\ kbDirs = {}
    /\ kbFiles = NoFiles
    /\ frame_dirs = [i \in DOMAIN IterDir |->
                        ScannedDir(IterDir[i], Cardinality(children[IterDir[i]].pngs))]
    /\ frame_dirs # <<>>
    /\ index_data = <<>>
    /\ indexFile = <<>>
    /\ guideFile = <<>>
    /\ tempDoc = <<>>
    /\ probeResult = <<>>
    /\ createResult = <<>>
    /\ memvid_success = <<>>
    /\ summary = <<>>
    /\ exitStatus = <<>>
    /\ events = <<"scan">>
    /\ kbFrameDirs = <<>>
    /\ topics = <<>>
    /\ buildResult = <<>>
    /\ logo = <<>>
    /\ icons = <<>>

NextGuide ==
    \/ MainWriteIndex
    \/ MainWriteGuide
    \/ MemvidProbe
    \/ MemvidWriteTempDoc
    \/ MemvidCreate
    \/ MainSummary

SpecGuide == InitGuide /\ [][NextGuide]_vars

-----------------------------------------------------------------------------
(* build_topic_structure run twice on one mapping *)

\* files a user has put under topic directories
UserFileCandidates ==
    {<<"topics", "authentication", "code-examples", "login.py">>,
     <<"topics", "database", "concepts", "notes.md">>}
UserContent == [user |-> "text"]

Ancestors(p) == {SubSeq(p, 1, n) : n \in 0..(Len(p) - 1)}

CandidateFramePaths == [i \in 1..MaxTopicFrames |-> Str(<<1, FrameFile(i)>>)]
TopicMappings ==
    {[t \in Topics |-> Take(CandidateFramePaths, lens[t])] :
        lens \in [Topics -> 0..MaxTopicFrames]}

\* a constructed builder, some user files, a mapping to materialize
InitTopics ==
    /\ prog = "topics"
    /\ pc = "first"
    /\ argc = 0
    /\ rootKind = "absent"
    /\ children = NoChildren
    /\ clock = 0
    /\ \E U \in SUBSET UserFileCandidates :
          /\ kbFiles = [p \in U |-> UserContent]
          /\ kbDirs = ConstructDirs({}) \cup UNION {Ancestors(p) : p \in U}
    /\ Fresh
    /\ topics \in {<<m>> : m \in TopicMappings}

\* one call of build_topic_structure(topics)
RunBuildTopicStructure ==
    /\ prog = "topics" /\ pc \in {"first", "second"}
    /\ LET st == BuildTopicStructure(topics[1], kbDirs, kbFiles, clock)
       IN  /\ kbDirs' = st.dirs
           /\ kbFiles' = st.files
           /\ pc' = IF st.failed THEN "failed"
                    ELSE IF pc = "first" THEN "second" ELSE "done"
    /\ events' = Append(events, "topic_structure")
    /\ UNCHANGED <<envVars, iconVars, clock, idxVars, exitStatus, kbFrameDirs, topics,
                   buildResult>>

\* time passes between the two calls
Tick ==
    /\ prog = "topics" /\ pc = "second" /\ clock < MaxClock
    /\ clock' = clock + 1
    /\ UNCHANGED <<envVars, iconVars, kbVars, pc, idxVars, exitStatus, events>>

NextTopics ==
    \/ RunBuildTopicStructure
    \/ Tick

SpecTopics == InitTopics /\ [][NextTopics]_vars

-----------------------------------------------------------------------------
(* Properties of the two scripts *)

\* the file names of a frames list of an index, and lexical ascent
FrameStems(frames) == [i \in DOMAIN frames |-> PathName(PathOf(frames[i])).stem]
LexAscending(stems) ==
    \A i \in 1..(Len(stems) - 1) : LexLess(stems[i], stems[i + 1])

\* the frame paths of directory `item` on disk
PngPaths(item) == {<<item, FrameFile(i)>> : i \in children[item].pngs}
QualifyingItems == {c \in Items : children[c].kind = "dir" /\ children[c].pngs # {}}

IndexTotalsAgree(index) ==
    /\ index.total_frames =
           SumSeq([i \in DOMAIN index.videos |-> index.videos[i].frame_count])
    /\ index.total_videos = Len(index.videos)
    /\ \A i \in DOMAIN index.videos :
           index.videos[i].frame_count = Len(index.videos[i].frames)

MasterIndexWritten == MasterIndexPath \in DOMAIN kbFiles
ScanDone == Len(events) >= 1 /\ events[1] = "scan"
ProbeFailed == probeResult # <<>> /\ probeResult[1] # "found"
ReportedNotCreated ==
    /\ pc \in {"summary", "exited"}
    /\ pc = "summary" => ENABLED MainSummary
    /\ pc = "exited" =>
          /\ exitStatus = <<0>>
          /\ summary # <<>> /\ summary[1].memvid = "Not Created"

\* C1: in the index built by create_knowledge_index, and in the master index
\* written by create_master_index, total_frames is the sum of the entries'
\* frame_count, total_videos is the number of entries, and every entry's
\* frame_count is the length of its frames list.
C1_IndexTotals ==
    /\ index_data # <<>> => IndexTotalsAgree(index_data[1])
    /\ indexFile # <<>> => IndexTotalsAgree(indexFile[1])
    /\ MasterIndexWritten => IndexTotalsAgree(kbFiles[MasterIndexPath])

C1_Witness ==
    /\ indexFile # <<>>
    /\ indexFile[1].total_videos = 2
    /\ indexFile[1].total_frames = 3
    /\ indexFile[1].videos[1].frame_count # indexFile[1].videos[2].frame_count

\* C2: in the frame indexer every video entry's frames list is in strictly
\* ascending lexical file-name order and holds exactly the png files of the
\* video's directory, whatever order the filesystem enumerated them in; the
\* list is therefore the same in every run over the same directory content.
C2_IndexerFramesSorted ==
    /\ \A i \in DOMAIN frame_dirs :
          /\ LexAscending([k \in DOMAIN frame_dirs[i].frames |->
                              frame_dirs[i].frames[k][2].stem])
          /\ Range(frame_dirs[i].frames) = PngPaths(frame_dirs[i].name)
    /\ indexFile # <<>> =>
          \A i \in DOMAIN indexFile[1].videos :
             LET video == indexFile[1].videos[i]
             IN  /\ LexAscending(FrameStems(video.frames))
                 /\ {PathOf(f) : f \in Range(video.frames)} = PngPaths(video.name)

C2_Witness ==
    /\ indexFile # <<>>
    /\ \E i \in DOMAIN indexFile[1].videos : indexFile[1].videos[i].frame_count >= 2

\* C3: in the master index written by create_master_index every video
\* entry's frames list is in ascending lexical file-name order, whatever
\* order the filesystem enumerated the directory in.
C3_MasterFramesSorted ==
    MasterIndexWritten =>
        \A i \in DOMAIN kbFiles[MasterIndexPath].videos :
            LexAscending(FrameStems(kbFiles[MasterIndexPath].videos[i].frames))

\* C4: in a run of the frame indexer that found a frame set, once the probe
\* for the external tool has failed (non-zero status or exception) the index
\* JSON and the guide are written, the create command is not invoked, no
\* temporary document is written, and the run goes on to its summary, which
\* reports "Not Created", and ends with status 0.
C4_ProbeFailureIsNotFatal ==
    (prog = "indexer" /\ ProbeFailed) =>
        /\ frame_dirs # <<>>
        /\ indexFile # <<>> /\ guideFile # <<>>
        /\ createResult = <<>>
        /\ tempDoc = <<>>
        /\ memvid_success = <<FALSE>>
        /\ ReportedNotCreated

C4_Witness ==
    /\ probeResult = <<"raised">>
    /\ pc = "exited" /\ exitStatus = <<0>>
    /\ summary[1].memvid = "Not Created"

\* C5: build_memvid_knowledge_base returns True exactly when the probe
\* succeeded and `memvid create` returned status 0; a non-zero status or an
\* exception of the create subprocess makes it return False, and main then
\* completes with status 0 and reports "Not Created".
C5_SuccessFollowsExitStatus ==
    /\ memvid_success # <<>> =>
          (memvid_success[1] <=> (probeResult = <<"found">> /\ createResult = <<"zero">>))
    /\ createResult # <<>> => memvid_success # <<>>
    /\ (createResult # <<>> /\ createResult[1] # "zero") =>
          /\ memvid_success = <<FALSE>>
          /\ ReportedNotCreated
    /\ (pc = "exited" /\ summary # <<>>) =>
          (summary[1].memvid = "Created" <=> memvid_success = <<TRUE>>)

C5_Witness ==
    /\ createResult = <<"nonzero">>
    /\ pc = "exited" /\ exitStatus = <<0>>
    /\ summary[1].memvid = "Not Created"

\* C6: when the scan finds no qualifying frame directory, the frame indexer
\* exits with status 1 having written neither index, guide nor temporary
\* document and without calling the external tool, and build returns False
\* having written no file under the knowledge-base directory; the topic
\* organizer then exits with status 1.
C6_NothingFoundIsFailure ==
    /\ (prog = "indexer" /\ ScanDone /\ frame_dirs = <<>>) =>
          /\ pc = "exited" /\ exitStatus = <<1>>
          /\ index_data = <<>> /\ indexFile = <<>> /\ guideFile = <<>>
          /\ tempDoc = <<>> /\ probeResult = <<>> /\ createResult = <<>>
          /\ summary = <<>>
    /\ (prog = "kb" /\ (\E i \in DOMAIN events : events[i] = "scan")
            /\ kbFrameDirs = <<>>) =>
          /\ buildResult = <<FALSE>>
          /\ DOMAIN kbFiles = {}
          /\ pc \in {"sys_exit", "exited"}
          /\ pc = "exited" => exitStatus = <<1>>

C6_Witness ==
    /\ prog = "kb" /\ pc = "exited"
    /\ buildResult = <<FALSE>>
    /\ \E c \in Items : children[c].kind = "dir" /\ children[c].other
    /\ \E c \in Items : children[c].kind = "file"

\* C7: the topic organizer's main exits with status 1 when fewer than two
\* arguments are given or the source does not exist, and never constructs
\* the builder in those runs, so that no directory or file is created;
\* otherwise it exits with 0 exactly when build returned True, and with 1
\* when build returned False, which it does when no frame directory was found.
C7_ExitStatus ==
    prog = "kb" =>
        /\ (argc < 2 \/ rootKind = "absent") =>
              /\ kbDirs = {} /\ DOMAIN kbFiles = {}
              /\ pc \in {"start", "exited"}
              /\ pc = "exited" => exitStatus = <<1>>
        /\ (argc >= 2 /\ rootKind # "absent" /\ pc = "exited") =>
              /\ exitStatus = <<0>> <=> buildResult = <<TRUE>>
              /\ buildResult = <<FALSE>> => (exitStatus = <<1>> /\ kbFrameDirs = <<>>)
              /\ buildResult = <<TRUE>> => kbFrameDirs # <<>>

C7_Witness ==
    /\ prog = "kb" /\ pc = "exited"
    /\ argc = 2 /\ rootKind = "absent"
    /\ exitStatus = <<1>>

\* C10: find_all_frame_directories returns one entry for each child of the
\* root that is a directory holding at least one png file and for no other
\* child; every entry's frame_count is at least 1 and is the length of its
\* frames list; a root that is missing or has no such child gives the empty
\* list; and the scan has written nothing.
C10_ScanResult ==
    (prog = "indexer" /\ ScanDone) =>
        /\ {frame_dirs[i].name : i \in DOMAIN frame_dirs} = QualifyingItems
        /\ Len(frame_dirs) = Cardinality(QualifyingItems)
        /\ \A i \in DOMAIN frame_dirs :
              /\ frame_dirs[i].frame_count >= 1
              /\ frame_dirs[i].frame_count = Len(frame_dirs[i].frames)
        /\ (rootKind = "absent" \/ QualifyingItems = {}) => frame_dirs = <<>>
        /\ events = <<"scan">> =>
              /\ indexFile = <<>> /\ guideFile = <<>> /\ tempDoc = <<>>
              /\ kbDirs = {} /\ DOMAIN kbFiles = {}

C10_Witness ==
    /\ prog = "indexer" /\ events = <<"scan">>
    /\ Len(frame_dirs) = 1
    /\ \E c \in Items :
          children[c].kind = "dir" /\ children[c].pngs = {} /\ children[c].other

\* C8: in the learning guide, an entry of a video with n frames lists the
\* first 5 file names of the index entry, in order, and then one line
\* announcing n - 5 more frames when n > 5; it lists all n file names and no
\* such line when n <= 5.
C8_SampleTruncation ==
    (guideFile # <<>> /\ indexFile # <<>>) =>
        \A i \in DOMAIN indexFile[1].videos :
            LET video == indexFile[1].videos[i]
                n == video.frame_count
                shown == IF n > 5 THEN 5 ELSE n
                section == guideFile[1].sections[i]
                samples == SelectSeq(section, LAMBDA l : l.kind = "sample")
                mores == SelectSeq(section, LAMBDA l : l.kind = "more")
            IN  /\ Len(samples) = shown
                /\ \A k \in 1..shown :
                      /\ section[4 + k].kind = "sample"
                      /\ section[4 + k].file = PathName(PathOf(video.frames[k]))
                /\ IF n > 5
                      THEN /\ Len(mores) = 1
                           /\ section[4 + shown + 1].kind = "more"
                           /\ section[4 + shown + 1].num = n - 5
                      ELSE mores = <<>>

C8_Witness ==
    /\ guideFile # <<>>
    /\ Len(guideFile[1].sections) = 2
    /\ indexFile[1].videos[1].frame_count = 6
    /\ indexFile[1].videos[2].frame_count = 5
    /\ \E k \in DOMAIN guideFile[1].sections[1] :
          guideFile[1].sections[1][k].kind = "more"

\* what a topic's metadata says apart from its timestamp
WithoutTimestamp(m) == [topic |-> m.topic, frame_count |-> m.frame_count, frames |-> m.frames]
GeneratedPaths ==
    UNION {{<<"topics", t, "metadata.json">>, <<"topics", t, "concepts", "overview.md">>} :
              t \in Topics}

\* C9: a call of build_topic_structure does not fail on directories that
\* exist already and neither removes nor changes any file other than the
\* topics' metadata.json and concepts/overview.md; a second call with the
\* same mapping leaves every topic's metadata.json as the first call wrote
\* it except for last_updated, and every overview.md unchanged.
C9_TopicStructureIdempotent ==
    [][(prog = "topics" /\ pc \in {"first", "second"}) =>
          /\ pc' # "failed"
          /\ kbDirs \subseteq kbDirs'
          /\ \A p \in DOMAIN kbFiles \ GeneratedPaths :
                p \in DOMAIN kbFiles' /\ kbFiles'[p] = kbFiles[p]
          /\ pc' # pc =>
                \A t \in Topics :
                   /\ <<"topics", t, "metadata.json">> \in DOMAIN kbFiles'
                   /\ <<"topics", t, "concepts", "overview.md">> \in DOMAIN kbFiles'
          /\ (pc = "second" /\ pc' = "done") =>
                \A t \in Topics :
                   /\ WithoutTimestamp(kbFiles'[<<"topics", t, "metadata.json">>])
                        = WithoutTimestamp(kbFiles[<<"topics", t, "metadata.json">>])
                   /\ kbFiles'[<<"topics", t, "concepts", "overview.md">>]
                        = kbFiles[<<"topics", t, "concepts", "overview.md">>]]_vars

C9_Witness ==
    /\ prog = "topics" /\ pc = "done"
    /\ DOMAIN kbFiles \ GeneratedPaths = UserFileCandidates
    /\ kbFiles[<<"topics", "database", "metadata.json">>].frame_count >= 1
    /\ kbFiles[<<"topics", "database", "metadata.json">>].last_updated >= 1

\* the seven topic names
SevenTopics ==
    {"authentication", "database", "api-design", "frontend", "deployment",
     "testing", "configuration"}

\* C11: after a successful build, started on an empty knowledge-base
\* directory, the directories under topics/ are those of the seven topic
\* names and no other; each holds concepts, code-examples and frames, a
\* metadata.json and a concepts/overview.md; the metadata's topic is the
\* topic name and its frame_count the length of its frames list; the
\* overview states that frame_count; and the build metadata lists exactly
\* the seven names.
C11_SevenTopicDirectories ==
    (prog = "kb" /\ buildResult = <<TRUE>>) =>
        /\ {d[2] : d \in {e \in kbDirs : Len(e) = 2 /\ e[1] = "topics"}} = SevenTopics
        /\ \A t \in SevenTopics :
              /\ \A sub \in {"concepts", "code-examples", "frames"} :
                    <<"topics", t, sub>> \in kbDirs
              /\ <<"topics", t, "metadata.json">> \in DOMAIN kbFiles
              /\ <<"topics", t, "concepts", "overview.md">> \in DOMAIN kbFiles
              /\ LET meta == kbFiles[<<"topics", t, "metadata.json">>]
                     overview == kbFiles[<<"topics", t, "concepts", "overview.md">>]
                 IN  /\ meta.topic = t
                     /\ meta.frame_count = Len(meta.frames)
                     /\ overview.topic = t
                     /\ overview.frame_count = meta.frame_count
        /\ <<"metadata.json">> \in DOMAIN kbFiles
        /\ Len(kbFiles[<<"metadata.json">>].topics) = 7
        /\ Range(kbFiles[<<"metadata.json">>].topics) = SevenTopics

C11_Witness ==
    /\ prog = "kb" /\ pc = "exited"
    /\ buildResult = <<TRUE>> /\ exitStatus = <<0>>
    /\ Len(kbFrameDirs) = 2

IsPrefix(s, t) == Len(s) <= Len(t) /\ SubSeq(t, 1, Len(s)) = s
Happened(step) == \E i \in DOMAIN events : events[i] = step

\* C13: in every run of the frame indexer's main the steps taken are an
\* initial part of scan, index JSON, guide, probe, temporary document,
\* create, summary, or of scan, index JSON, guide, probe, summary; the
\* temporary document is written only after a successful probe, the create
\* command is invoked only after a successful probe and with the temporary
\* document written, and the summary is emitted only once
\* build_memvid_knowledge_base has returned.
C13_StepOrder ==
    prog = "indexer" =>
        /\ \/ IsPrefix(events, <<"scan", "index", "guide", "probe", "temp_doc",
                                 "create", "summary">>)
           \/ IsPrefix(events, <<"scan", "index", "guide", "probe", "summary">>)
        /\ indexFile # <<>> <=> Happened("index")
        /\ guideFile # <<>> <=> Happened("guide")
        /\ probeResult # <<>> <=> Happened("probe")
        /\ tempDoc # <<>> <=> Happened("temp_doc")
        /\ createResult # <<>> <=> Happened("create")
        /\ summary # <<>> <=> Happened("summary")
        /\ tempDoc # <<>> => probeResult = <<"found">>
        /\ (createResult # <<>> \/ pc = "create") =>
              (probeResult = <<"found">> /\ tempDoc # <<>>)
        /\ Happened("temp_doc") <=> (Happened("probe") /\ probeResult = <<"found">>
                                        /\ pc # "temp_doc")
        /\ summary # <<>> =>
              /\ memvid_success # <<>>
              /\ probeResult = <<"found">> => createResult # <<>>

C13_Witness ==
    /\ prog = "indexer" /\ pc = "exited"
    /\ events = <<"scan", "index", "guide", "probe", "temp_doc", "create", "summary">>
    /\ createResult = <<"zero">> /\ summary[1].memvid = "Created"


-----------------------------------------------------------------------------
(* generate_pwa_icons.py: the logo composed onto the background *)

\* sides of the logo image that are tried: the smallest ones, and a stride
\* of larger ones that reaches past the largest box the logo is fitted into
MaxSmallSide == 3
LogoStep == 37
MaxLogoSteps == 16

LogoSides == (1..MaxSmallSide) \cup {k * LogoStep : k \in 1..MaxLogoSteps}

Abs(n) == IF n < 0 THEN 0 - n ELSE n
Max(a, b) == IF a >= b THEN a ELSE b

\* a key of round_aspect is a fraction <<numerator, denominator>>
KeyLess(a, b) == a[1] * b[2] < b[1] * a[2]

\* floor and ceiling of num / den
Floor(num, den) == num \div den
Ceil(num, den) == IF num % den = 0 THEN num \div den ELSE (num \div den) + 1

\* round_aspect(number, key) inside Image.thumbnail, given lo = floor(number),
\* hi = ceil(number) and their keys: the one of the smaller key, and at least 1.
\* min() takes the floor when the keys are equal; the keys are floating-point
\* values, so on an exact tie either one can come out
RoundAspect(lo, hi, keyLo, keyHi) ==
    LET chosen == IF KeyLess(keyLo, keyHi) THEN {lo}
                  ELSE IF KeyLess(keyHi, keyLo) THEN {hi}
                  ELSE {lo, hi}
    IN  {Max(n, 1) : n \in chosen}

\* key=lambda n: abs(aspect - n / y), with aspect = w / h
WidthKey(w, h, y, n) == <<Abs(w * y - n * h), h * y>>

\* key=lambda n: 0 if n == 0 else abs(aspect - x / n), with aspect = w / h
HeightKey(w, h, x, n) == IF n = 0 THEN <<0, 1>> ELSE <<Abs(w * n - x * h), h * n>>

\* logo.thumbnail((x, y)): the sizes a w-by-h image can have afterwards.
\* An image that fits the box is left alone; otherwise one side becomes the
\* side of the box and the other follows the aspect ratio w / h
ThumbnailSizes(w, h, x, y) ==
    IF x >= w /\ y >= h THEN {<<w, h>>}
    ELSE IF x * h >= w * y
         THEN LET lo == Floor(y * w, h)
                  hi == Ceil(y * w, h)
              IN  {<<n, y>> : n \in RoundAspect(lo, hi, WidthKey(w, h, y, lo),
                                                WidthKey(w, h, y, hi))}
         ELSE LET lo == Floor(x * h, w)
                  hi == Ceil(x * h, w)
              IN  {<<x, n>> : n \in RoundAspect(lo, hi, HeightKey(w, h, x, lo),
                                                HeightKey(w, h, x, hi))}

\* the four create_pwa_icon calls of main, in order
IconCalls == << [size |-> 192, is_maskable |-> FALSE],
                [size |-> 512, is_maskable |-> FALSE],
                [size |-> 192, is_maskable |-> TRUE],
                [size |-> 512, is_maskable |-> TRUE] >>

LogoScaleTenthsSwapped(is_maskable) == IF is_maskable THEN 8 ELSE 6

\* logo_scale = 0.6 if is_maskable else 0.8, in tenths
LogoScaleTenths(is_maskable) == IF is_maskable THEN 6 ELSE 8

\* logo_size = int(size * logo_scale); for the sizes 192 and 512 the float
\* product truncates to the floor of the exact product (115, 153, 307, 409)
LogoSize(size, is_maskable) == (size * LogoScaleTenths(is_maskable)) \div 10

\* f'Icon{maskable_suffix}-{size}.png'
IconFilename(size, is_maskable) ==
    <<"Icon", IF is_maskable THEN "-maskable" ELSE "", "-", size, ".png">>

\* the icon create_pwa_icon saves when the thumbnail of the logo is thumb
ComposedIcon(size, is_maskable, thumb) ==
    [ size        |-> size,
      is_maskable |-> is_maskable,
      filename    |-> IconFilename(size, is_maskable),
      canvas      |-> <<size, size>>,
      logo_size   |-> LogoSize(size, is_maskable),
      logo        |-> thumb,
      logo_x      |-> (size - thumb[1]) \div 2,
      logo_y      |-> (size - thumb[2]) \div 2 ]

otherVars == <<rootKind, children, argc, clock, idxVars, kbVars, events>>

\* one create_pwa_icon(size, is_maskable) call of main
CreatePwaIcon ==
    /\ prog = "icons" /\ pc = "start"
    /\ logo # <<>>
    /\ Len(icons) < Len(IconCalls)
    /\ LET call == IconCalls[Len(icons) + 1]
           box  == LogoSize(call.size, call.is_maskable)
       IN  \E thumb \in ThumbnailSizes(logo[1], logo[2], box, box) :
              icons' = Append(icons, ComposedIcon(call.size, call.is_maskable, thumb))
    /\ UNCHANGED <<prog, pc, logo, exitStatus, otherVars>>

\* Image.open(LOGO_PATH) raises when the logo file is missing
IconsOpenFails ==
    /\ prog = "icons" /\ pc = "start"
    /\ logo = <<>>
    /\ pc' = "exited"
    /\ exitStatus' = <<1>>
    /\ UNCHANGED <<prog, logo, icons, otherVars>>

\* main returns after the fourth icon
IconsExit ==
    /\ prog = "icons" /\ pc = "start"
    /\ Len(icons) = Len(IconCalls)
    /\ pc' = "exited"
    /\ exitStatus' = <<0>>
    /\ UNCHANGED <<prog, logo, icons, otherVars>>

InitIcons ==
    /\ prog = "icons"
    /\ pc = "start"
    /\ argc = 0
    /\ rootKind = "absent"
    /\ children = NoChildren
    /\ clock = 0
    /\ kbDirs = {}
    /\ kbFiles = NoFiles
    /\ topics = <<>>
    /\ frame_dirs = <<>>
    /\ index_data = <<>>
    /\ indexFile = <<>>
    /\ guideFile = <<>>
    /\ tempDoc = <<>>
    /\ probeResult = <<>>
    /\ createResult = <<>>
    /\ memvid_success = <<>>
    /\ summary = <<>>
    /\ exitStatus = <<>>
    /\ events = <<>>
    /\ kbFrameDirs = <<>>
    /\ buildResult = <<>>
    /\ logo \in {<<>>} \cup (LogoSides \X LogoSides)
    /\ icons = <<>>

NextIcons ==
    \/ CreatePwaIcon
    \/ IconsOpenFails
    \/ IconsExit

SpecIcons == InitIcons /\ [][NextIcons]_vars

\* C12: every icon the generator saves, for size 192 or 512, maskable or not,
\* and a logo of width and height at least 1, has a canvas of size x size; the
\* pasted logo is at most 60% of the size wide and high when maskable and at
\* most 80% otherwise; it is pasted at ((size - w) div 2, (size - h) div 2);
\* both offsets are non-negative; the logo lies inside the canvas; and the
\* left and right margins, and the top and bottom margins, differ by at most 1.
C12_IconGeometry ==
    prog = "icons" =>
        \A i \in DOMAIN icons :
            LET ic     == icons[i]
                size   == ic.size
                w      == ic.logo[1]
                h      == ic.logo[2]
                tenths == IF ic.is_maskable THEN 6 ELSE 8
                right  == size - (ic.logo_x + w)
                bottom == size - (ic.logo_y + h)
            IN  /\ size \in {192, 512}
                /\ logo[1] >= 1 /\ logo[2] >= 1
                /\ ic.canvas = <<size, size>>
                /\ w >= 1 /\ h >= 1
                /\ 10 * w <= tenths * size
                /\ 10 * h <= tenths * size
                /\ 2 * ic.logo_x <= size - w /\ size - w < 2 * ic.logo_x + 2
                /\ 2 * ic.logo_y <= size - h /\ size - h < 2 * ic.logo_y + 2
                /\ ic.logo_x >= 0 /\ ic.logo_y >= 0
                /\ right >= 0 /\ bottom >= 0
                /\ Abs(ic.logo_x - right) <= 1
                /\ Abs(ic.logo_y - bottom) <= 1

\* all four icons were saved from a logo too large for every box, the logo
\* was shrunk on both sides, and some margins are unequal
C12_Witness ==
    /\ prog = "icons" /\ pc = "exited" /\ exitStatus = <<0>>
    /\ Len(icons) = 4
    /\ logo[1] > 409 /\ logo[2] > logo[1]
    /\ \A i \in DOMAIN icons :
          /\ icons[i].logo[2] = icons[i].logo_size
          /\ icons[i].logo[1] < icons[i].logo_size
    /\ \E i \in DOMAIN icons :
          /\ icons[i].is_maskable
          /\ (icons[i].size - icons[i].logo[1]) % 2 = 1
          /\ icons[i].logo_x # icons[i].size - (icons[i].logo_x + icons[i].logo[1])

====
